---- MODULE Spec2Model ----
(***************************************************************************)
\* Model of the microblogging API (src/app/main.py, auth.py, models.py,
\* ml.py): users, posts and follow edges kept in a relational store, JWT
\* bearer authentication, and one action per HTTP handler.  `req` and
\* `resp` hold the last request answered and the response it got.
\*
\* Library calls are modelled by their contract: bcrypt as an ideal salted
\* hash, jose.jwt as a signed {sub, exp} record whose expiry is compared
\* with the application clock, TextBlob polarity as a fixed table.
\*
\* The specifications share the state and the handlers and differ in the
\* requests clients send.  In Spec (posts, edges and feed of two accounts),
\* SpecPosts (posts with texts of each polarity), SpecFeed (the follow graph
\* of three accounts), SpecAuth (registration, login, tokens and the clock),
\* SpecGate (every protected handler called with good and bad tokens) and
\* SpecStart (the service started with or without its signing key) a
\* handler runs as one step.  In SpecRace the handlers that check and then
\* write run as two steps each, on two connections at a time, and in
\* SpecFeedRace the feed runs as its two queries while the other handlers
\* change the store in between.
(***************************************************************************)
EXTENDS Integers, Sequences, FiniteSets, Bags, TLC

\* ------------------------------------------------------------- bounds
MaxUsers   == 3      \* rows the users table may hold
MaxPosts   == 2      \* values the posts id sequence may hand out
MaxTicks   == 3      \* steps the application clock takes
TickMinutes == 15    \* minutes in one step of the application clock
MaxDbTime  == 1      \* last value of the database clock
MaxIssued  == 1      \* tokens the clients keep from successful logins

\* ------------------------------------------------------------- inputs
Usernames == {"alice", "bob", "carol"}
Passwords == {"pw1", "pw2"}
Salts     == {"salt1", "salt2"}

\* ------------------------------------------------------------- auth.py
\* os.getenv("SECRET_KEY"): the value a configured environment holds, and
\* None when the variable is not set.
SECRET_KEY_ENV == "secret"

NoKey == "<None>"

ACCESS_TOKEN_EXPIRE_MINUTES == 30

\* ------------------------------------------------------------- state
VARIABLES users,     \* rows of table users (models.User)
          posts,     \* rows of table posts (models.Post)
          follows,   \* rows of table follows (models.Follow), a bag: what
                     \* keeps a row from being there twice is the primary key
          post_seq,  \* last value handed out by the posts id sequence
          now,       \* application clock, read by the token code
          dbnow,     \* database clock, func.now() of created_at
          issued,    \* tokens returned by /login that clients still hold
          req,       \* the request served last
          resp,      \* the response it got
          SECRET_KEY, \* auth.SECRET_KEY, loaded when the module is imported
          pending,   \* per connection, the request that has done its reads
                     \* and has its write and commit ahead
          window     \* history, no state of the program: per connection
                     \* with a feed request between its two queries, the
                     \* feeds of the states the store went through since
                     \* the first query

vars == <<users, posts, follows, post_seq, now, dbnow, issued, req, resp,
          SECRET_KEY, pending, window>>

store == <<users, posts, follows, post_seq>>

\* The application clock counts minutes and stops at MaxTime.
MaxTime == MaxTicks * TickMinutes

\* bcrypt.hashpw: the digest is a function of the salt and the password and
\* carries the salt.
hashpw(password, salt) == <<salt, password>>

hash_password(password, salt) == hashpw(password, salt)

\* Verification that hashes the candidate with a salt of its own instead of
\* the one in the stored digest.
verify_password_fresh_salt(password, hashed_password) ==
    hashpw(password, "salt1") = hashed_password

\* bcrypt.checkpw re-hashes the candidate with the salt embedded in the
\* stored digest and compares.
verify_password(password, hashed_password) ==
    hashpw(password, hashed_password[1]) = hashed_password

NoSub == "<no sub>"

\* A bearer token as the client presents it: kind "jwt" is a well-formed
\* JWT signed with `key`, "garbage" a string that is no JWT, "absent" no
\* Authorization header.
MkToken(kind, sub, exp, key) == [kind |-> kind, sub |-> sub, exp |-> exp, key |-> key]

NoToken == MkToken("absent", NoSub, 0, "")

\* jose builds an HMAC key from a str or bytes only: with SECRET_KEY None
\* jwt.encode raises, and so does the signature check of jwt.decode, with an
\* error that is no JWTError.
JWKError == SECRET_KEY = NoKey

\* create_access_token(data={"sub": username}) at application time `t`.
create_access_token(sub, t) ==
    MkToken("jwt", sub, t + ACCESS_TOKEN_EXPIRE_MINUTES, SECRET_KEY)

\* Decoding that does not look at the expiry.
jwt_decode_ok_no_exp(token, t) ==
    /\ token.kind = "jwt"
    /\ token.key = SECRET_KEY

\* jwt.decode(token, SECRET_KEY): JWTError on a malformed token, a bad
\* signature or an expiry in the past.
jwt_decode_ok(token, t) ==
    /\ token.kind = "jwt"
    /\ token.key = SECRET_KEY
    /\ ~(token.exp < t)


\* ------------------------------------------------------------- requests
\* The connections requests arrive on, each served by a worker of its own.
Conns == {"c1", "c2"}

MkReq(op, token, username, email, password, post_id, content) ==
    [op |-> op, token |-> token, username |-> username, email |-> email,
     password |-> password, post_id |-> post_id, content |-> content]

\* ------------------------------------------------------------- responses
MkResp(status, detail, headers, body) ==
    [status |-> status, detail |-> detail, headers |-> headers, body |-> body]

\* A handler's return value, sent with FastAPI's default status.
Ok(body) == MkResp(200, "", <<>>, body)

\* raise HTTPException(status_code, detail) without headers.
HTTPException(status, detail) == MkResp(status, detail, <<>>, <<>>)

\* An exception no handler catches (IntegrityError at commit).
ServerError == MkResp(500, "Internal Server Error", <<>>, <<>>)

\* OAuth2PasswordBearer(tokenUrl="login") with no Authorization header.
NotAuthenticated ==
    MkResp(401, "Not authenticated", <<"WWW-Authenticate", "Bearer">>, <<>>)

\* auth.py:145-149.  The headers argument is written {"WWW-Authenticate:" "Bearer"}:
\* adjacent string literals concatenate, so it is the one-element set
\* {"WWW-Authenticate:Bearer"} and not a name/value mapping.
credentials_exception ==
    MkResp(401, "No se pudo validar las credenciales",
           <<"WWW-Authenticate:Bearer">>, <<>>)

\* ------------------------------------------------------------- queries
\* db.query(UserModel).filter(UserModel.username == username)
UsersByUsername(username) == {u \in users : u.username = username}

\* The email query filtering on the username column.
UsersByEmail_username(email) == {u \in users : u.username = email}

\* db.query(UserModel).filter(UserModel.email == email)
UsersByEmail(email) == {u \in users : u.email = email}

\* db.query(PostModel).filter(PostModel.id == post_id)
PostsById(post_id) == {p \in posts : p.id = post_id}

\* The edge query filtering on the follower only.
FollowsOf_follower(follower_id, followed_id) ==
    {f \in BagToSet(follows) : f.follower_id = follower_id}

\* db.query(Follow).filter(Follow.follower_id == a, Follow.followed_id == b)
FollowsOf(follower_id, followed_id) ==
    {f \in BagToSet(follows) :
        f.follower_id = follower_id /\ f.followed_id = followed_id}

\* The unique constraints of table users with the one on username left out.
UniqueViolation_email_only(new_user) ==
    \E u \in users : u.email = new_user.email

\* unique=True on users.username and users.email: the insert of a row that
\* repeats either one fails at commit.
UniqueViolation(new_user) ==
    \E u \in users : u.username = new_user.username \/ u.email = new_user.email

\* .first() of a query that has rows.
First(rows) == CHOOSE r \in rows : TRUE

\* Post.owner / User as UserPostResponse.
UserPostResponse(owner_id) ==
    LET u == First({x \in users : x.id = owner_id})
    IN  [id |-> u.id, username |-> u.username]

\* schemas.PostResponse of a posts row.
PostResponse(p) ==
    [id |-> p.id, content |-> p.content, created_at |-> p.created_at,
     owner |-> UserPostResponse(p.owner_id)]

\* schemas.UserResponse of a users row.
UserResponse(u) ==
    [id |-> u.id, username |-> u.username, email |-> u.email,
     is_active |-> u.is_active]

\* The rows ordered oldest first.
OrderByCreatedAtAsc(rows) ==
    {s \in [1..Cardinality(rows) -> rows] :
        /\ \A i, j \in 1..Cardinality(rows) : i # j => s[i] # s[j]
        /\ \A i, j \in 1..Cardinality(rows) :
              i < j => s[i].created_at <= s[j].created_at}

\* The orders .order_by(PostModel.created_at.desc()).all() may return the
\* rows in: newest first, rows of equal created_at in any order.
OrderByCreatedAtDesc(rows) ==
    {s \in [1..Cardinality(rows) -> rows] :
        /\ \A i, j \in 1..Cardinality(rows) : i # j => s[i] # s[j]
        /\ \A i, j \in 1..Cardinality(rows) :
              i < j => s[i].created_at >= s[j].created_at}

PostResponses(s) == [i \in 1..Len(s) |-> PostResponse(s[i])]

\* ------------------------------------------------------------- ml.py
\* TextBlob(text).sentiment.polarity, in hundredths.
polarity(text) ==
    CASE text = "I love this" -> 50
      [] text = "I hate this" -> -80
      [] OTHER -> 0

\* The classification with zero polarity counted as positive.
analyze_sentiment_zero_positive(text) ==
    IF polarity(text) >= 0 THEN "Positivo"
    ELSE "Negativo"

analyze_sentiment(text) ==
    IF polarity(text) > 0 THEN "Positivo"
    ELSE IF polarity(text) < 0 THEN "Negativo"
    ELSE "Neutral"

\* ------------------------------------------------------------- auth
\* get_current_user behind oauth2_scheme: the user row injected into the
\* handler, or the response that ends the request.
NoUser == [id |-> 0, username |-> "", email |-> "", hashed_password |-> <<"", "">>,
           is_active |-> FALSE]

AuthResult(ok, user, exc) == [ok |-> ok, user |-> user, exc |-> exc]

get_current_user(token) ==
    IF token.kind = "absent" THEN AuthResult(FALSE, NoUser, NotAuthenticated)
    ELSE IF token.kind = "jwt" /\ JWKError THEN AuthResult(FALSE, NoUser, ServerError)
    ELSE IF ~jwt_decode_ok(token, now) THEN AuthResult(FALSE, NoUser, credentials_exception)
    ELSE IF token.sub = NoSub THEN AuthResult(FALSE, NoUser, credentials_exception)
    ELSE IF UsersByUsername(token.sub) = {} THEN AuthResult(FALSE, NoUser, credentials_exception)
    ELSE AuthResult(TRUE, First(UsersByUsername(token.sub)), Ok(<<>>))


\* ------------------------------------------------------------- clients
\* Tokens a client can put in the Authorization header besides the ones
\* /login gave out.  SignedFor(u) is a JWT signed with the service key that
\* names username u and outlives the model's clock; the others are the ways
\* a token can be wrong: none sent, a string that is no JWT, a JWT signed
\* with another key, an expired one, one that carries no "sub".
FarExp == MaxTime + ACCESS_TOKEN_EXPIRE_MINUTES

SignedFor(u) == MkToken("jwt", u, FarExp, SECRET_KEY_ENV)

Garbage == MkToken("garbage", NoSub, 0, "")

BadSignature == MkToken("jwt", "alice", FarExp, "other key")

Expired == MkToken("jwt", "alice", 0 - 1, SECRET_KEY_ENV)

NoSubject == MkToken("jwt", NoSub, FarExp, SECRET_KEY_ENV)

BadTokens == {NoToken, Garbage, BadSignature, Expired, NoSubject}

\* What the client does with the token of a successful login: it keeps it,
\* dropping one it held when it holds MaxIssued already.
Keep(token) ==
    IF token \in issued \/ Cardinality(issued) < MaxIssued
    THEN {issued \cup {token}}
    ELSE {(issued \ {old}) \cup {token} : old \in issued}

\* A connection with no request between its reads and its commit.
Idle == [op |-> "none"]

\* A request that ends in `r` without touching the store.
Reply(r) == resp' = r /\ UNCHANGED store

\* ------------------------------------------------------------- history
\* The posts of the authors `uid` follows, read off the two tables.
FollowedPosts(uid) ==
    {p \in posts : \E f \in BagToSet(follows) :
                       f.follower_id = uid /\ f.followed_id = p.owner_id}

\* The feeds a feed request on connection `c` has had in front of it: those
\* recorded so far and the one of the state a step starts in.
Seen(c) ==
    IF pending[c].op = "show_posts"
    THEN window[c] \cup {FollowedPosts(pending[c].current_user.id)}
    ELSE {}

\* Every step of a request records the state it starts in.
Observe == window' = [c \in Conns |-> Seen(c)]

\* ------------------------------------------------------------- handlers
\* POST /users
create_user(username, email, password, salt) ==
    /\ req' = MkReq("create_user", NoToken, username, email, password, 0, "")
    /\ UNCHANGED <<now, dbnow, issued, SECRET_KEY, pending>>
    /\ Observe
    /\ IF UsersByEmail(email) # {}
       THEN Reply(HTTPException(400, "El email ya esta registrado."))
       ELSE LET new_user == [id |-> Cardinality(users) + 1,
                             username |-> username,
                             email |-> email,
                             hashed_password |-> hash_password(password, salt),
                             is_active |-> TRUE]
            IN  IF UniqueViolation(new_user)
                THEN \* db.commit() raises IntegrityError, which nothing catches
                     Reply(ServerError)
                ELSE /\ Cardinality(users) < MaxUsers
                     /\ users' = users \cup {new_user}
                     /\ resp' = Ok(<<UserResponse(new_user)>>)
                     /\ UNCHANGED <<posts, follows, post_seq>>

\* GET /users/me
read_current_user(token) ==
    /\ req' = MkReq("read_current_user", token, "", "", "", 0, "")
    /\ UNCHANGED <<now, dbnow, issued, SECRET_KEY, pending>>
    /\ Observe
    /\ LET auth == get_current_user(token)
       IN  IF ~auth.ok THEN Reply(auth.exc)
           ELSE Reply(Ok(<<auth.user>>))

\* GET /users/{username}
get_profile(username) ==
    /\ req' = MkReq("get_profile", NoToken, username, "", "", 0, "")
    /\ UNCHANGED <<now, dbnow, issued, SECRET_KEY, pending>>
    /\ Observe
    /\ IF UsersByUsername(username) = {}
       THEN Reply(HTTPException(404, "Usuario no encontrado"))
       ELSE Reply(Ok(<<UserResponse(First(UsersByUsername(username)))>>))

\* POST /login
login_for_access_token(username, password) ==
    /\ req' = MkReq("login", NoToken, username, "", password, 0, "")
    /\ UNCHANGED <<now, dbnow, SECRET_KEY, pending>>
    /\ Observe
    /\ IF UsersByUsername(username) = {}
       THEN /\ Reply(HTTPException(401, "Error: Credenciales Incorrectas"))
            /\ UNCHANGED issued
       ELSE LET search_user == First(UsersByUsername(username))
            IN  IF ~verify_password(password, search_user.hashed_password)
                THEN /\ Reply(HTTPException(401, "Error: Credenciales incorrectas"))
                     /\ UNCHANGED issued
                ELSE IF JWKError
                THEN /\ Reply(ServerError)
                     /\ UNCHANGED issued
                ELSE LET access_token == create_access_token(search_user.username, now)
                     IN  /\ Reply(Ok(<<access_token, "bearer">>))
                         /\ issued' \in Keep(access_token)

\* GET /posts/
get_all_posts ==
    /\ req' = MkReq("get_all_posts", NoToken, "", "", "", 0, "")
    /\ UNCHANGED <<now, dbnow, issued, SECRET_KEY, pending>>
    /\ Observe
    /\ \E all_posts \in OrderByCreatedAtDesc(posts) :
          Reply(Ok(PostResponses(all_posts)))

\* The list built from the wrong column of the rows read: the caller's own
\* id, once per row.
followed_users_id_follower(current_user) ==
    {follow_record.follower_id :
        follow_record \in {f \in BagToSet(follows) : f.follower_id = current_user.id}}

\* The first query of show_posts: the ids the caller follows.
followed_users_id(current_user) ==
    {follow_record.followed_id :
        follow_record \in {f \in BagToSet(follows) : f.follower_id = current_user.id}}

\* show_posts with the owner filter lost: every stored post.
PostsOwnedBy_all(ids) == posts

\* The second query of show_posts: the posts owned by one of these ids.
PostsOwnedBy(ids) == {p \in posts : p.owner_id \in ids}

\* GET /posts/feed
show_posts(token) ==
    /\ req' = MkReq("show_posts", token, "", "", "", 0, "")
    /\ UNCHANGED <<now, dbnow, issued, SECRET_KEY, pending>>
    /\ Observe
    /\ LET auth == get_current_user(token)
       IN  IF ~auth.ok THEN Reply(auth.exc)
           ELSE IF followed_users_id(auth.user) = {} THEN Reply(Ok(<<>>))
           ELSE \E current_posts \in
                      OrderByCreatedAtDesc(PostsOwnedBy(followed_users_id(auth.user))) :
                   Reply(Ok(PostResponses(current_posts)))

\* GET /posts/{post_id}
get_post_by_id(post_id) ==
    /\ req' = MkReq("get_post_by_id", NoToken, "", "", "", post_id, "")
    /\ UNCHANGED <<now, dbnow, issued, SECRET_KEY, pending>>
    /\ Observe
    /\ IF PostsById(post_id) = {}
       THEN Reply(HTTPException(404, "Publicacion no encontrada, prueba con otra"))
       ELSE Reply(Ok(<<PostResponse(First(PostsById(post_id)))>>))

\* The owner column filled with the id after the caller's.
new_post_owner_id_next(current_user) == current_user.id + 1

\* owner_id = current_user.id
new_post_owner_id(current_user) == current_user.id

\* POST /posts/
create_new_post(token, content) ==
    /\ req' = MkReq("create_new_post", token, "", "", "", 0, content)
    /\ UNCHANGED <<now, dbnow, issued, SECRET_KEY, pending>>
    /\ Observe
    /\ LET auth == get_current_user(token)
       IN  IF ~auth.ok THEN Reply(auth.exc)
           ELSE LET new_post == [id |-> post_seq + 1,
                                 content |-> content,
                                 owner_id |-> new_post_owner_id(auth.user),
                                 created_at |-> dbnow,
                                 sentiment |-> analyze_sentiment(content)]
                IN  /\ post_seq < MaxPosts
                    /\ posts' = posts \cup {new_post}
                    /\ post_seq' = post_seq + 1
                    /\ resp' = Ok(<<[content |-> new_post.content]>>)
                    /\ UNCHANGED <<users, follows>>

\* The ownership test comparing the post's owner with itself.
NotOwner_never(post, current_user) == post.owner_id # post.owner_id

\* The ownership test of update_post_by_id and delete_post_by_id.
NotOwner(post, current_user) == post.owner_id # current_user.id

\* The answer to an update of a missing post as the docstring has it.
update_post_missing_404 == HTTPException(404, "Not Found")

\* if not post: raise HTTPException(status_code=status.HTTP_403_FORBIDDEN),
\* the detail defaulting to the status phrase.
update_post_missing == HTTPException(403, "Forbidden")

\* The update writing a fresh label along with the content.
post_with_content_relabelled(post, content) ==
    [post EXCEPT !.content = content, !.sentiment = analyze_sentiment(content)]

\* post.content = post_data.content: the row update_post_by_id commits.
post_with_content(post, content) == [post EXCEPT !.content = content]

\* PUT /posts/{post_id}
update_post_by_id(token, post_id, content) ==
    /\ req' = MkReq("update_post_by_id", token, "", "", "", post_id, content)
    /\ UNCHANGED <<now, dbnow, issued, SECRET_KEY, pending>>
    /\ Observe
    /\ LET auth == get_current_user(token)
       IN  IF ~auth.ok THEN Reply(auth.exc)
           ELSE IF PostsById(post_id) = {}
           THEN Reply(update_post_missing)
           ELSE LET post == First(PostsById(post_id))
                IN  IF NotOwner(post, auth.user)
                    THEN Reply(HTTPException(403,
                             "No tienes permiso para actualizar esta publicacion"))
                    ELSE LET updated == post_with_content(post, content)
                         IN  /\ posts' = (posts \ {post}) \cup {updated}
                             /\ resp' = Ok(<<PostResponse(updated)>>)
                             /\ UNCHANGED <<users, follows, post_seq>>

\* The delete that leaves the row where it is.
posts_after_delete_kept(post) == posts

\* db.delete(post); db.commit(): the table without the row.
posts_after_delete(post) == posts \ {post}

\* DELETE /posts/{post_id}
delete_post_by_id(token, post_id) ==
    /\ req' = MkReq("delete_post_by_id", token, "", "", "", post_id, "")
    /\ UNCHANGED <<now, dbnow, issued, SECRET_KEY, pending>>
    /\ Observe
    /\ LET auth == get_current_user(token)
       IN  IF ~auth.ok THEN Reply(auth.exc)
           ELSE IF PostsById(post_id) = {}
           THEN Reply(HTTPException(404, "Publicacion no encontrada"))
           ELSE LET post == First(PostsById(post_id))
                IN  IF NotOwner(post, auth.user)
                    THEN Reply(HTTPException(403,
                             "No tiene permisos para borrar este post"))
                    ELSE /\ posts' = posts_after_delete(post)
                         /\ resp' = Ok(<<"Publicacion eliminada correctamente">>)
                         /\ UNCHANGED <<users, follows, post_seq>>

\* The self-follow test that never fires.
follows_self_never(search_follower, current_user) == FALSE

\* if search_follower.id == current_user.id
follows_self(search_follower, current_user) == search_follower.id = current_user.id

\* follow_user with the two ids of the new row exchanged.
new_follow_swapped(current_user, search_follower) ==
    [follower_id |-> search_follower.id, followed_id |-> current_user.id]

\* The row follow_user inserts.
new_follow(current_user, search_follower) ==
    [follower_id |-> current_user.id, followed_id |-> search_follower.id]

\* POST /users/{username}/follow
follow_user(token, username) ==
    /\ req' = MkReq("follow_user", token, username, "", "", 0, "")
    /\ UNCHANGED <<now, dbnow, issued, SECRET_KEY, pending>>
    /\ Observe
    /\ LET auth == get_current_user(token)
       IN  IF ~auth.ok THEN Reply(auth.exc)
           ELSE IF UsersByUsername(username) = {}
           THEN Reply(HTTPException(404, "Usuario no encontrado"))
           ELSE LET search_follower == First(UsersByUsername(username))
                IN  IF follows_self(search_follower, auth.user)
                    THEN Reply(HTTPException(400, "No se puede seguir asi mismo"))
                    ELSE IF FollowsOf(auth.user.id, search_follower.id) # {}
                    THEN Reply(HTTPException(400, "Ya sigues a este usuario"))
                    ELSE /\ follows' = follows (+) SetToBag({new_follow(auth.user, search_follower)})
                         /\ resp' = Ok(<<"Has comenzado a seguir a: ",
                                         search_follower.username>>)
                         /\ UNCHANGED <<users, posts, post_seq>>

\* DELETE /users/{username}/follow
unfowllow_to_user(token, username) ==
    /\ req' = MkReq("unfowllow_to_user", token, username, "", "", 0, "")
    /\ UNCHANGED <<now, dbnow, issued, SECRET_KEY, pending>>
    /\ Observe
    /\ LET auth == get_current_user(token)
       IN  IF ~auth.ok THEN Reply(auth.exc)
           ELSE IF UsersByUsername(username) = {}
           THEN Reply(HTTPException(400, "Error, el usuario no se encuentra"))
           ELSE LET user_to_unfollow == First(UsersByUsername(username))
                    unfollow_user == FollowsOf(auth.user.id, user_to_unfollow.id)
                IN  IF unfollow_user = {}
                    THEN Reply(HTTPException(400, "Error, no sigues a este usuario"))
                    ELSE /\ follows' = follows (-) SetToBag({First(unfollow_user)})
                         /\ resp' = Ok(<<"Ya no sigues a este usuario">>)
                         /\ UNCHANGED <<users, posts, post_seq>>

\* ------------------------------------------------------------- requests in two steps
\* A handler that reads, decides and then writes does so in statements of
\* its own session; between its last read and its commit the other
\* connections' statements may run.  The first step below is the handler up
\* to its last read, the second its add or delete and its commit.
Leave(c) == pending' = [pending EXCEPT ![c] = Idle]

Hold(c, r) == pending' = [pending EXCEPT ![c] = r]

\* create_user up to the email query and the hashing (main.py:80-96).
create_user_check(c, username, email, password, salt) ==
    /\ pending[c] = Idle
    /\ UNCHANGED <<now, dbnow, issued, SECRET_KEY>>
    /\ Observe
    /\ LET request == MkReq("create_user", NoToken, username, email, password, 0, "")
       IN  IF UsersByEmail(email) # {}
           THEN /\ req' = request
                /\ Reply(HTTPException(400, "El email ya esta registrado."))
                /\ UNCHANGED pending
           ELSE /\ Hold(c, [op |-> "create_user", req |-> request,
                            hashed_password |-> hash_password(password, salt)])
                /\ UNCHANGED <<store, req, resp>>

\* db.add(new_user); db.commit() (main.py:99-105).
create_user_commit(c) ==
    /\ pending[c].op = "create_user"
    /\ req' = pending[c].req
    /\ Leave(c)
    /\ UNCHANGED <<now, dbnow, issued, SECRET_KEY>>
    /\ Observe
    /\ LET new_user == [id |-> Cardinality(users) + 1,
                        username |-> pending[c].req.username,
                        email |-> pending[c].req.email,
                        hashed_password |-> pending[c].hashed_password,
                        is_active |-> TRUE]
       IN  IF UniqueViolation(new_user)
           THEN Reply(ServerError)
           ELSE /\ Cardinality(users) < MaxUsers
                /\ users' = users \cup {new_user}
                /\ resp' = Ok(<<UserResponse(new_user)>>)
                /\ UNCHANGED <<posts, follows, post_seq>>

\* The primary key of follows taken off the table.
PrimaryKeyViolation_none(row) == FALSE

\* A primary key that refuses every row.
PrimaryKeyViolation_always(row) == TRUE

\* primary_key=True on follows.followed_id and follows.follower_id: the
\* insert of a row whose pair is in the table fails at commit.
PrimaryKeyViolation(row) == BagIn(row, follows)

\* follow_user up to the query for an existing edge (main.py:461-475).
follow_user_check(c, token, username) ==
    /\ pending[c] = Idle
    /\ UNCHANGED <<now, dbnow, issued, SECRET_KEY>>
    /\ Observe
    /\ LET request == MkReq("follow_user", token, username, "", "", 0, "")
           auth == get_current_user(token)
           Refuse(r) == req' = request /\ Reply(r) /\ UNCHANGED pending
       IN  IF ~auth.ok THEN Refuse(auth.exc)
           ELSE IF UsersByUsername(username) = {}
           THEN Refuse(HTTPException(404, "Usuario no encontrado"))
           ELSE LET search_follower == First(UsersByUsername(username))
                IN  IF follows_self(search_follower, auth.user)
                    THEN Refuse(HTTPException(400, "No se puede seguir asi mismo"))
                    ELSE IF FollowsOf(auth.user.id, search_follower.id) # {}
                    THEN Refuse(HTTPException(400, "Ya sigues a este usuario"))
                    ELSE /\ Hold(c, [op |-> "follow_user", req |-> request,
                                     row |-> new_follow(auth.user, search_follower)])
                         /\ UNCHANGED <<store, req, resp>>

\* db.add(new_follow); db.commit() (main.py:488-492).
follow_user_commit(c) ==
    /\ pending[c].op = "follow_user"
    /\ req' = pending[c].req
    /\ Leave(c)
    /\ UNCHANGED <<now, dbnow, issued, SECRET_KEY>>
    /\ Observe
    /\ IF PrimaryKeyViolation(pending[c].row)
       THEN Reply(ServerError)
       ELSE /\ follows' = follows (+) SetToBag({pending[c].row})
            /\ resp' = Ok(<<"Has comenzado a seguir a: ", pending[c].req.username>>)
            /\ UNCHANGED <<users, posts, post_seq>>

\* unfowllow_to_user up to the query for the edge (main.py:521-532).
unfowllow_to_user_check(c, token, username) ==
    /\ pending[c] = Idle
    /\ UNCHANGED <<now, dbnow, issued, SECRET_KEY>>
    /\ Observe
    /\ LET request == MkReq("unfowllow_to_user", token, username, "", "", 0, "")
           auth == get_current_user(token)
           Refuse(r) == req' = request /\ Reply(r) /\ UNCHANGED pending
       IN  IF ~auth.ok THEN Refuse(auth.exc)
           ELSE IF UsersByUsername(username) = {}
           THEN Refuse(HTTPException(400, "Error, el usuario no se encuentra"))
           ELSE LET user_to_unfollow == First(UsersByUsername(username))
                    unfollow_user == FollowsOf(auth.user.id, user_to_unfollow.id)
                IN  IF unfollow_user = {}
                    THEN Refuse(HTTPException(400, "Error, no sigues a este usuario"))
                    ELSE /\ Hold(c, [op |-> "unfowllow_to_user", req |-> request,
                                     row |-> First(unfollow_user)])
                         /\ UNCHANGED <<store, req, resp>>

\* db.delete(unfollow_user); db.commit() (main.py:535-538).  When another
\* request has deleted the row in between, the DELETE matches no row: the
\* ORM either warns and goes on or raises, by its version and settings.
unfowllow_to_user_commit(c) ==
    /\ pending[c].op = "unfowllow_to_user"
    /\ req' = pending[c].req
    /\ Leave(c)
    /\ UNCHANGED <<now, dbnow, issued, SECRET_KEY>>
    /\ Observe
    /\ IF ~BagIn(pending[c].row, follows)
       THEN \E r \in {Ok(<<"Ya no sigues a este usuario">>), ServerError} : Reply(r)
       ELSE /\ follows' = follows (-) SetToBag({pending[c].row})
            /\ resp' = Ok(<<"Ya no sigues a este usuario">>)
            /\ UNCHANGED <<users, posts, post_seq>>

\* show_posts up to its first query, the list of followed ids and the early
\* return on an empty list (main.py:246-257).
show_posts_followed(c, token) ==
    /\ pending[c] = Idle
    /\ UNCHANGED <<now, dbnow, issued, SECRET_KEY>>
    /\ Observe
    /\ LET request == MkReq("show_posts", token, "", "", "", 0, "")
           auth == get_current_user(token)
           Return(r) == req' = request /\ Reply(r) /\ UNCHANGED pending
       IN  IF ~auth.ok THEN Return(auth.exc)
           ELSE IF followed_users_id(auth.user) = {} THEN Return(Ok(<<>>))
           ELSE /\ Hold(c, [op |-> "show_posts", req |-> request,
                            current_user |-> auth.user,
                            followed_users_id |-> followed_users_id(auth.user)])
                /\ UNCHANGED <<store, req, resp>>

\* The second query, over the list the first one gave, and the response
\* (main.py:259-262).
show_posts_posts(c) ==
    /\ pending[c].op = "show_posts"
    /\ req' = pending[c].req
    /\ Leave(c)
    /\ UNCHANGED <<now, dbnow, issued, SECRET_KEY>>
    /\ window' = [d \in Conns |-> IF d = c THEN {} ELSE Seen(d)]
    /\ \E current_posts \in
             OrderByCreatedAtDesc(PostsOwnedBy(pending[c].followed_users_id)) :
          Reply(Ok(PostResponses(current_posts)))

\* ------------------------------------------------------------- clocks
\* Time passes on the application host.
Tick ==
    /\ now + TickMinutes <= MaxTime
    /\ now' = now + TickMinutes
    /\ UNCHANGED <<store, dbnow, issued, req, resp, SECRET_KEY, pending, window>>

\* Time passes on the database host.
TickDb ==
    /\ dbnow < MaxDbTime
    /\ dbnow' = dbnow + 1
    /\ UNCHANGED <<store, now, issued, req, resp, SECRET_KEY, pending, window>>

\* ------------------------------------------------------------- system
PostIds == 1..(MaxPosts + 1)

\* The process once app.main is imported with `key` the value of
\* os.getenv("SECRET_KEY"): tables created and empty, no request served.
Imported(key) ==
    /\ users = {}
    /\ posts = {}
    /\ follows = EmptyBag
    /\ post_seq = 0
    /\ now = 0
    /\ dbnow = 0
    /\ issued = {}
    /\ req = MkReq("none", NoToken, "", "", "", 0, "")
    /\ resp = Ok(<<>>)
    /\ SECRET_KEY = key
    /\ pending = [c \in Conns |-> Idle]
    /\ window = [c \in Conns |-> {}]

\* A deployment with SECRET_KEY set in its environment.
Init == Imported(SECRET_KEY_ENV)

\* A start in an environment that may lack SECRET_KEY.
InitAnyEnv == \E key \in {SECRET_KEY_ENV, NoKey} : Imported(key)

\* The content side of the API: two accounts, every handler that reads or
\* writes posts and follow edges, callers holding a good token.
Names2 == {"alice", "bob"}

Mails2 == {"a@x.io", "b@x.io"}

Texts2 == {"I love this", ""}

Tokens2 == {SignedFor(u) : u \in Names2}

Next ==
    \/ \E u \in Names2, e \in Mails2 : create_user(u, e, "pw1", "salt1")
    \/ get_all_posts
    \/ \E t \in Tokens2 : show_posts(t)
    \/ \E i \in PostIds : get_post_by_id(i)
    \/ \E t \in Tokens2, c \in Texts2 : create_new_post(t, c)
    \/ \E t \in Tokens2, i \in PostIds, c \in Texts2 : update_post_by_id(t, i, c)
    \/ \E t \in Tokens2, i \in PostIds : delete_post_by_id(t, i)
    \/ \E t \in Tokens2, u \in Names2 : follow_user(t, u)
    \/ \E t \in Tokens2, u \in Names2 : unfowllow_to_user(t, u)
    \/ TickDb

Spec == Init /\ [][Next]_vars


\* The follow graph and the feed with three accounts: each username with
\* its own address, posts created, edited and deleted, edges made and removed.
Accounts3 == {<<"alice", "a@x.io">>, <<"bob", "b@x.io">>, <<"carol", "c@x.io">>}

Tokens3 == {SignedFor(u) : u \in Usernames}

Texts1 == {"I love this"}

\* The callers that follow, unfollow and read their feed.
Readers3 == {SignedFor("alice"), SignedFor("bob")}

NextFeed ==
    \/ \E a \in Accounts3 : create_user(a[1], a[2], "pw1", "salt1")
    \/ \E t \in Readers3 : show_posts(t)
    \/ \E t \in Tokens3, c \in Texts1 : create_new_post(t, c)
    \/ \E t \in Tokens3, i \in PostIds, c \in Texts1 : update_post_by_id(t, i, c)
    \/ \E t \in Tokens3, i \in PostIds : delete_post_by_id(t, i)
    \/ \E t \in Readers3, u \in Usernames : follow_user(t, u)
    \/ \E t \in Readers3, u \in Usernames : unfowllow_to_user(t, u)
    \/ TickDb

SpecFeed == Init /\ [][NextFeed]_vars


\* Accounts and tokens: registration with any password and salt, login, the
\* application clock, and callers presenting the tokens /login gave them or a
\* wrong one.
TokensAuth == issued \cup BadTokens

NextAuth ==
    \/ \E u \in Names2, e \in Mails2, p \in Passwords, s \in Salts :
          create_user(u, e, p, s)
    \/ \E u \in Names2, p \in Passwords : login_for_access_token(u, p)
    \/ \E t \in TokensAuth : read_current_user(t)
    \/ \E u \in Names2 : get_profile(u)
    \/ Tick

SpecAuth == Init /\ [][NextAuth]_vars

\* The authentication dependency in front of every protected handler: two
\* accounts, callers presenting a good token, a wrong one, or one that
\* names an account not registered yet.
Accounts2 == {<<"alice", "a@x.io">>, <<"bob", "b@x.io">>}

TokensGate == BadTokens \cup {SignedFor(u) : u \in Names2}

NextGate ==
    \/ \E a \in Accounts2 : create_user(a[1], a[2], "pw1", "salt1")
    \/ \E t \in TokensGate : read_current_user(t)
    \/ \E t \in TokensGate : show_posts(t)
    \/ \E t \in TokensGate, c \in Texts1 : create_new_post(t, c)
    \/ \E t \in TokensGate, i \in PostIds, c \in Texts1 : update_post_by_id(t, i, c)
    \/ \E t \in TokensGate, i \in PostIds : delete_post_by_id(t, i)
    \/ \E t \in TokensGate, u \in Names2 : follow_user(t, u)
    \/ \E t \in TokensGate, u \in Names2 : unfowllow_to_user(t, u)

SpecGate == Init /\ [][NextGate]_vars


\* Accounts and tokens again, the service started with or without
\* SECRET_KEY in its environment.
SpecStart == InitAnyEnv /\ [][NextAuth]_vars

\* Registration, follow and unfollow of two accounts, each request in two
\* steps, on two connections at a time.
NextRace ==
    \/ \E c \in Conns, u \in Names2, e \in Mails2 :
          create_user_check(c, u, e, "pw1", "salt1")
    \/ \E c \in Conns : create_user_commit(c)
    \/ \E c \in Conns, t \in Tokens2, u \in Names2 : follow_user_check(c, t, u)
    \/ \E c \in Conns : follow_user_commit(c)
    \/ \E c \in Conns, t \in Tokens2, u \in Names2 : unfowllow_to_user_check(c, t, u)
    \/ \E c \in Conns : unfowllow_to_user_commit(c)

SpecRace == Init /\ [][NextRace]_vars

\* One reader whose feed is read in two queries on one connection while the
\* reader follows and unfollows and both accounts post and delete, each of
\* those in one step on another worker.
FeedReader == SignedFor("alice")

FeedConn == "c1"

NextFeedRace ==
    \/ \E a \in Accounts2 : create_user(a[1], a[2], "pw1", "salt1")
    \/ show_posts_followed(FeedConn, FeedReader)
    \/ show_posts_posts(FeedConn)
    \/ \E t \in Tokens2, c \in Texts1 : create_new_post(t, c)
    \/ \E t \in Tokens2, i \in PostIds : delete_post_by_id(t, i)
    \/ \E u \in Names2 : follow_user(FeedReader, u)
    \/ \E u \in Names2 : unfowllow_to_user(FeedReader, u)
    \/ TickDb

SpecFeedRace == Init /\ [][NextFeedRace]_vars

\* The posts of two accounts: written with a positive, a negative and a
\* neutral text, edited, deleted, listed and read one by one.
Texts3 == {"I love this", "I hate this", ""}

NextPosts ==
    \/ \E a \in Accounts2 : create_user(a[1], a[2], "pw1", "salt1")
    \/ get_all_posts
    \/ \E i \in PostIds : get_post_by_id(i)
    \/ \E t \in Tokens2, c \in Texts3 : create_new_post(t, c)
    \/ \E t \in Tokens2, i \in PostIds, c \in Texts3 : update_post_by_id(t, i, c)
    \/ \E t \in Tokens2, i \in PostIds : delete_post_by_id(t, i)
    \/ TickDb

SpecPosts == Init /\ [][NextPosts]_vars


\* ============================================================= properties
\* A step that serves a request: the handlers leave both clocks alone, the
\* clock steps leave req and resp alone.
Served == now' = now /\ dbnow' = dbnow

ProtectedOps == {"read_current_user", "show_posts", "create_new_post",
                 "update_post_by_id", "delete_post_by_id", "follow_user",
                 "unfowllow_to_user"}

\* The caller of the last request, as the authentication dependency sees it.
Caller == get_current_user(req.token)

BodySet(body) == {body[i] : i \in 1..Len(body)}

\* ------------------------------------------------------------- C1
\* C1: the feed an authenticated user A gets is exactly the stored posts of
\* the users A follows, each once, newest first; none of A's own posts, no
\* post of a user A does not follow, and the empty list when A follows nobody.
C1_FeedIsFollowedPosts ==
    (req.op = "show_posts" /\ Caller.ok) =>
        LET A == Caller.user
            body == resp.body
        IN  /\ resp.status = 200
            /\ Len(body) = Cardinality(FollowedPosts(A.id))
            /\ BodySet(body) = {PostResponse(p) : p \in FollowedPosts(A.id)}
            /\ \A i, j \in 1..Len(body) :
                  i < j => body[i].created_at >= body[j].created_at
            /\ \A i \in 1..Len(body) :
                  /\ body[i].owner.id # A.id
                  /\ \E f \in BagToSet(follows) :
                        f.follower_id = A.id /\ f.followed_id = body[i].owner.id
            /\ ({f \in BagToSet(follows) : f.follower_id = A.id} = {} => body = <<>>)

\* A feed of two posts by two different followed authors, created at
\* different times.
C1_Witness ==
    /\ req.op = "show_posts"
    /\ resp.status = 200
    /\ Len(resp.body) = 2
    /\ resp.body[1].owner.id # resp.body[2].owner.id
    /\ resp.body[1].created_at > resp.body[2].created_at

\* ------------------------------------------------------------- C2
\* C2: an update or delete of post P by an authenticated user who is not P's
\* owner ends in 403 Forbidden and changes nothing stored; a post's row
\* changes or disappears only in an update or delete requested by its owner.
C2_OnlyOwnerChangesPost ==
    [][Served =>
        LET caller == get_current_user(req'.token)
        IN  /\ (/\ req'.op \in {"update_post_by_id", "delete_post_by_id"}
                /\ caller.ok
                /\ \E p \in posts : p.id = req'.post_id /\ p.owner_id # caller.user.id)
               => (resp'.status = 403 /\ UNCHANGED store)
            /\ \A p \in posts :
                  p \notin posts' =>
                     /\ req'.op \in {"update_post_by_id", "delete_post_by_id"}
                     /\ req'.post_id = p.id
                     /\ caller.ok
                     /\ caller.user.id = p.owner_id]_vars

\* A non-owner's update of an existing post was refused.
C2_Witness ==
    /\ req.op = "update_post_by_id"
    /\ Caller.ok
    /\ \E p \in posts :
          p.id = req.post_id /\ p.owner_id # Caller.user.id /\ p.content # req.content
    /\ resp.status = 403

\* ------------------------------------------------------------- C3
\* C3: a follow by an authenticated user ends in 404 when the target
\* username does not exist, in 400 when the target is the caller and in 400
\* when the edge (caller, target) exists, the edges unchanged in each case;
\* otherwise exactly the edge (caller, target) is added.
C3_FollowOutcomes ==
    [][(Served /\ req'.op = "follow_user" /\ get_current_user(req'.token).ok) =>
        LET caller == get_current_user(req'.token).user
            target == {u \in users : u.username = req'.username}
        IN  IF target = {}
            THEN resp'.status = 404 /\ follows' = follows
            ELSE LET t == CHOOSE u \in target : TRUE
                     edge == [follower_id |-> caller.id, followed_id |-> t.id]
                 IN  IF t.id = caller.id \/ BagIn(edge, follows)
                     THEN resp'.status = 400 /\ follows' = follows
                     ELSE /\ resp'.status = 200
                          /\ follows' = follows (+) SetToBag({edge})
                          /\ follows' # follows]_vars

\* The second of two identical follows was refused; the edge is there once.
C3_Witness ==
    /\ req.op = "follow_user"
    /\ resp = HTTPException(400, "Ya sigues a este usuario")
    /\ Caller.ok
    /\ \E f \in BagToSet(follows) : f.follower_id = Caller.user.id

\* ------------------------------------------------------------- C4
\* C4: an unfollow by an authenticated user ends in 400 (not 404) when the
\* target username does not exist and in 400 when there is no edge
\* (caller, target), the edges unchanged; otherwise it removes exactly that
\* edge, after which the caller's feed holds no post of the target.
C4_UnfollowOutcomes ==
    [][(Served /\ req'.op = "unfowllow_to_user" /\ get_current_user(req'.token).ok) =>
        LET caller == get_current_user(req'.token).user
            target == {u \in users : u.username = req'.username}
        IN  IF target = {}
            THEN resp'.status = 400 /\ follows' = follows
            ELSE LET t == CHOOSE u \in target : TRUE
                     edge == [follower_id |-> caller.id, followed_id |-> t.id]
                 IN  IF ~BagIn(edge, follows)
                     THEN resp'.status = 400 /\ follows' = follows
                     ELSE /\ resp'.status = 200
                          /\ follows' = follows (-) SetToBag({edge})
                          /\ ~BagIn(edge, follows')
                          /\ posts' = posts
                          /\ \A p \in posts' :
                                p.owner_id = t.id =>
                                   ~\E f \in BagToSet(follows') :
                                       /\ f.follower_id = caller.id
                                       /\ f.followed_id = p.owner_id]_vars

\* An edge was removed while the caller keeps another one, and the target
\* has a post.
C4_Witness ==
    /\ req.op = "unfowllow_to_user"
    /\ resp.status = 200
    /\ \E f \in BagToSet(follows) : f.follower_id = Caller.user.id
    /\ \E p \in posts, u \in users : u.username = req.username /\ p.owner_id = u.id


C7_FailedLoginsAlike ==
    [][(/\ Served
        /\ req.op = "login" /\ resp.status = 401
        /\ req'.op = "login" /\ resp'.status = 401)
       => resp' = resp]_vars

\* ------------------------------------------------------------- C8
\* The password a users row was registered with: the digest determines it.
PasswordOf(u) == u.hashed_password[2]

\* C8: login returns a bearer token exactly when a user with the submitted
\* username exists and the submitted password is the one that user
\* registered with; the token's subject is that username, and login changes
\* nothing stored.
C8_LoginIffRegisteredPassword ==
    [][(Served /\ req'.op = "login") =>
        /\ resp'.status = 200 <=>
              \E u \in users :
                 u.username = req'.username /\ PasswordOf(u) = req'.password
        /\ resp'.status = 200 =>
              /\ resp'.body[1].sub = req'.username
              /\ resp'.body[1].kind = "jwt"
              /\ resp'.body[1].key = SECRET_KEY
              /\ resp'.body[2] = "bearer"
        /\ resp'.status # 200 => resp'.status = 401 /\ resp'.body = <<>>
        /\ UNCHANGED store]_vars

\* A login succeeded for a user whose digest carries the second salt, in a
\* table where another user has another password.
C8_Witness ==
    /\ req.op = "login"
    /\ resp.status = 200
    /\ \E u \in users : u.username = req.username /\ u.hashed_password[1] = "salt2"
    /\ \E u \in users : PasswordOf(u) # req.password

\* ------------------------------------------------------------- C9
\* C9: a token /login issued for subject s at time t (its expiry is t + TTL)
\* validates back to the user named s at every time before t + TTL and fails
\* validation at every time after it; whatever requests are served in
\* between, it keeps validating until then.
C9_TokenValidUntilExpiry ==
    \A tk \in issued :
        LET auth == get_current_user(tk)
        IN  /\ tk.exp - ACCESS_TOKEN_EXPIRE_MINUTES <= now
            /\ now < tk.exp => (auth.ok /\ auth.user.username = tk.sub)
            /\ now > tk.exp => ~auth.ok

\* An issued token was presented after its expiry and refused.
C9_Witness ==
    /\ req.op = "read_current_user"
    /\ req.token \in issued
    /\ now > req.token.exp
    /\ resp.status = 401

\* ------------------------------------------------------------- C10
\* C10: a protected request ends either authenticated as the stored user
\* whose username is the token's subject, or in the one Unauthorized
\* response, the same whatever is wrong with the token (none sent, bad
\* signature, expired, malformed, no subject, no such user), with nothing
\* stored changed.
C10_OneUnauthorizedResponse ==
    [][(Served /\ req'.op \in ProtectedOps) =>
        LET auth == get_current_user(req'.token)
        IN  /\ auth.ok =>
                 /\ req'.token.sub = auth.user.username
                 /\ auth.user \in users
                 /\ resp'.status # 401
            /\ ~auth.ok =>
                 /\ resp'.status = 401
                 /\ UNCHANGED store
                 /\ (req.op \in ProtectedOps /\ resp.status = 401) => resp' = resp]_vars

\* ------------------------------------------------------------- C11
\* C11 as stated: the listing holds every stored post exactly once, and of
\* any two adjacent posts the one listed first has a strictly later
\* creation time.
C11_ListingStrictlyDescending ==
    req.op = "get_all_posts" =>
        LET body == resp.body
        IN  /\ resp.status = 200
            /\ Len(body) = Cardinality(posts)
            /\ BodySet(body) = {PostResponse(p) : p \in posts}
            /\ \A i \in 1..(Len(body) - 1) :
                  body[i].created_at > body[i + 1].created_at

\* C11 amended: the listing holds every stored post exactly once, newest
\* first: of any two adjacent posts the one listed first has a later or the
\* same creation time, whatever creates, updates and deletes came before.
C11_ListingDescending ==
    req.op = "get_all_posts" =>
        LET body == resp.body
        IN  /\ resp.status = 200
            /\ Len(body) = Cardinality(posts)
            /\ BodySet(body) = {PostResponse(p) : p \in posts}
            /\ \A i \in 1..(Len(body) - 1) :
                  body[i].created_at >= body[i + 1].created_at

\* A listing of two posts, the newer one first, one of them edited since it
\* was created.
C11_Witness ==
    /\ req.op = "get_all_posts"
    /\ Len(resp.body) = 2
    /\ resp.body[1].created_at > resp.body[2].created_at
    /\ \E p \in posts : p.sentiment # analyze_sentiment(p.content)

\* ------------------------------------------------------------- C12
\* C12: a successful create-post by authenticated user U adds exactly one
\* post, owned by U, with the submitted content and the label
\* classify(content): Positivo iff polarity > 0, Negativo iff polarity < 0,
\* Neutral iff polarity = 0.  Owner and label follow from the caller and the
\* content, the only things the request carries; the posts there were are
\* unchanged.
C12_CreatePostAddsOne ==
    [][(Served /\ req'.op = "create_new_post" /\ get_current_user(req'.token).ok) =>
        LET U == get_current_user(req'.token).user
            added == posts' \ posts
            c == req'.content
        IN  /\ resp'.status = 200
            /\ posts \subseteq posts'
            /\ Cardinality(added) = 1
            /\ \A p \in added :
                  /\ p.owner_id = U.id
                  /\ p.content = c
                  /\ p.sentiment \in {"Positivo", "Negativo", "Neutral"}
                  /\ p.sentiment = "Positivo" <=> polarity(c) > 0
                  /\ p.sentiment = "Negativo" <=> polarity(c) < 0
                  /\ p.sentiment = "Neutral" <=> polarity(c) = 0
                  /\ \A q \in posts : q.id # p.id
            /\ users' = users /\ follows' = follows]_vars

\* A post with a neutral text was created next to a post of another owner.
C12_Witness ==
    /\ req.op = "create_new_post"
    /\ resp.status = 200
    /\ \E p, q \in posts :
          /\ p.id = post_seq /\ p.content = req.content /\ p.sentiment = "Neutral"
          /\ q.owner_id # p.owner_id /\ q.sentiment = "Negativo"

\* ------------------------------------------------------------- C13
\* C13: a successful update replaces the content of the post and nothing
\* else.  No step changes the label, owner, id or creation time of a post
\* that stays, and a post enters the table labelled classify of the content
\* it is created with: so after any updates the stored label is still
\* classify of that first content.
C13_UpdateReplacesOnlyContent ==
    [][Served =>
        /\ (req'.op = "update_post_by_id" /\ resp'.status = 200) =>
               \E p \in posts :
                  /\ p.id = req'.post_id
                  /\ posts' = (posts \ {p}) \cup {[p EXCEPT !.content = req'.content]}
                  /\ users' = users /\ follows' = follows /\ post_seq' = post_seq
        /\ \A p \in posts, q \in posts' :
               p.id = q.id =>
                  /\ q.sentiment = p.sentiment
                  /\ q.owner_id = p.owner_id
                  /\ q.created_at = p.created_at
        /\ \A q \in posts' :
               (\A p \in posts : p.id # q.id) =>
                  q.sentiment = analyze_sentiment(q.content)]_vars

\* An update went through that left the post with a label its new content
\* would not get.
C13_Witness ==
    /\ req.op = "update_post_by_id"
    /\ resp.status = 200
    /\ \E p \in posts :
          /\ p.id = req.post_id
          /\ p.content = req.content
          /\ p.sentiment # analyze_sentiment(p.content)

\* ------------------------------------------------------------- C14
\* C14: a delete by an authenticated user ends in 404 when no post has the
\* id and in 403 when the caller is not the owner, nothing stored changing;
\* the owner's delete removes that post and no other.  An id the sequence
\* handed out whose post is gone stays gone: get-by-id of it answers 404,
\* and no listing and no feed shows it.
C14_DeleteOutcomes ==
    [][Served =>
        LET caller == get_current_user(req'.token)
            found == {p \in posts : p.id = req'.post_id}
        IN  /\ (req'.op = "delete_post_by_id" /\ caller.ok) =>
                  IF found = {}
                  THEN resp'.status = 404 /\ UNCHANGED store
                  ELSE LET p == CHOOSE x \in found : TRUE
                       IN  IF p.owner_id # caller.user.id
                           THEN resp'.status = 403 /\ UNCHANGED store
                           ELSE /\ resp'.status = 200
                                /\ posts' = posts \ {p}
                                /\ p \notin posts'
                                /\ users' = users /\ follows' = follows
                                /\ post_seq' = post_seq
            /\ \A i \in 1..post_seq :
                  (\A p \in posts : p.id # i) =>
                     /\ \A q \in posts' : q.id # i
                     /\ (req'.op = "get_post_by_id" /\ req'.post_id = i)
                           => resp'.status = 404
                     /\ (req'.op \in {"get_all_posts", "show_posts"} /\ resp'.status = 200)
                           => \A k \in 1..Len(resp'.body) : resp'.body[k].id # i]_vars

\* A feed of one post, read after another post was deleted.
C14_Witness ==
    /\ req.op = "show_posts"
    /\ resp.status = 200
    /\ Len(resp.body) = 1
    /\ post_seq = 2
    /\ Cardinality(posts) = 1

C15_NoServiceWithoutKey ==
    SECRET_KEY = NoKey => req.op \notin ({"login"} \cup ProtectedOps)

\* ------------------------------------------------------------- C17
\* C17: in every reachable state no row of follows has its follower id equal
\* to its followed id, whatever registrations, follows and unfollows were
\* served and however their steps were interleaved.
C17_NoSelfLoop ==
    \A f \in BagToSet(follows) : f.follower_id # f.followed_id

\* A user's request to follow themselves was refused while they follow
\* somebody else.
C17_Witness ==
    /\ req.op = "follow_user"
    /\ resp = HTTPException(400, "No se puede seguir asi mismo")
    /\ \E u \in users :
          /\ u.username = req.username
          /\ \E f \in BagToSet(follows) : f.follower_id = u.id

\* ------------------------------------------------------------- C18
\* C18: in every reachable state the table follows holds at most one row
\* per ordered (follower, followed) pair, also when follows and unfollows of
\* one pair have their existence check and their insert or delete
\* interleaved.
C18_OneEdgePerPair ==
    \A f \in BagToSet(follows) : CopiesIn(f, follows) = 1

\* Two follows of the same pair are past their existence check and one of
\* them has inserted its row.
C18_Witness ==
    \E c \in Conns :
        /\ pending[c].op = "follow_user"
        /\ BagIn(pending[c].row, follows)
        /\ req.op = "follow_user"
        /\ req = pending[c].req
        /\ resp.status = 200

\* A follow request finishing: it was past its check and is now answered.
FollowCommits(c) == pending[c].op = "follow_user" /\ pending'[c] = Idle

\* ------------------------------------------------------------- C19
\* C19 as stated: when two identical follows have both passed the existence
\* check before either inserts, both inserts go through and both requests
\* report success, the pair ending up in the table twice.
C19_RaceInsertsTwice ==
    [][\A c \in Conns :
          FollowCommits(c) =>
             /\ resp'.status = 200
             /\ follows' = follows (+) SetToBag({pending[c].row})]_vars

\* C19 amended: the existence check and the insert are two steps, and two
\* identical follows can both pass the check before either inserts; the
\* first to commit inserts the row and reports success, the second is
\* refused by the primary key of follows and ends in a server error, the
\* table unchanged: the pair is never stored twice.
C19_RaceLoserRefusedByKey ==
    [][\A c \in Conns :
          FollowCommits(c) =>
             LET row == pending[c].row
             IN  IF BagIn(row, follows)
                 THEN resp' = ServerError /\ follows' = follows
                 ELSE /\ resp'.status = 200
                      /\ follows' = follows (+) SetToBag({row})
                      /\ CopiesIn(row, follows') = 1]_vars

\* The second of two racing identical follows got the server error; the
\* pair is in the table once.
C19_Witness ==
    /\ req.op = "follow_user"
    /\ resp = ServerError
    /\ \E f \in BagToSet(follows) :
          /\ CopiesIn(f, follows) = 1
          /\ \E a, b \in users :
                /\ a.id = f.follower_id /\ a.username = req.token.sub
                /\ b.id = f.followed_id /\ b.username = req.username

\* ------------------------------------------------------------- C20
\* C20: no two users share an email and no two share a username, and of
\* registrations racing for one email or one username (both past the email
\* check before either commits) one inserts its user and the other ends in
\* the conflict response (400) with the users unchanged.
C20_RaceLoserGetsConflict ==
    [][/\ \A u, v \in users' :
             (u.email = v.email \/ u.username = v.username) => u = v
       /\ \A c \in Conns :
             (pending[c].op = "create_user" /\ pending'[c] = Idle) =>
                IF \E u \in users : \/ u.email = pending[c].req.email
                                    \/ u.username = pending[c].req.username
                THEN resp'.status = 400 /\ users' = users
                ELSE /\ resp'.status = 200
                     /\ Cardinality(users' \ users) = 1]_vars

\* ------------------------------------------------------------- C21
\* C21: in every reachable state the owner id of every post and both ids of
\* every follows row are ids of stored users.  A new post gets the id of the
\* authenticated caller, a new row the ids of the caller and of the user
\* looked up by name; no step deletes or changes a user, the users only
\* grow.
C21_ReferencesResolve ==
    [][/\ \A u \in users : u \in users'
       /\ \A p \in posts' : \E u \in users' : u.id = p.owner_id
       /\ \A f \in BagToSet(follows') :
             /\ \E u \in users' : u.id = f.follower_id
             /\ \E u \in users' : u.id = f.followed_id
       /\ \A p \in posts' \ posts :
             (\A q \in posts : q.id # p.id) =>
                /\ get_current_user(req'.token).ok
                /\ p.owner_id = get_current_user(req'.token).user.id
       /\ \A f \in BagToSet(follows') :
             ~BagIn(f, follows) =>
                /\ get_current_user(req'.token).ok
                /\ f.follower_id = get_current_user(req'.token).user.id
                /\ \E u \in users : u.username = req'.username /\ u.id = f.followed_id]_vars

\* A third user registered when the first two had a post and a follows row
\* between them.
C21_Witness ==
    /\ req.op = "create_user"
    /\ resp.status = 200
    /\ Cardinality(users) = 3
    /\ \E p \in posts, f \in BagToSet(follows) : f.followed_id = p.owner_id

\* ------------------------------------------------------------- C22
\* The step in which the feed request on connection `c` runs its first query
\* and goes on, and the step in which it runs its second and answers.
FeedStarts(c) == pending[c] = Idle /\ pending'[c].op = "show_posts"

FeedEnds(c) == pending[c].op = "show_posts" /\ pending'[c] = Idle

\* C22 as stated: with follows, unfollows, new posts and deletions between
\* the two queries of the feed, the response is still the posts of the
\* followed authors of one state the store was in between the start and the
\* end of the request.
C22_FeedOfOneState ==
    [][\A c \in Conns :
          FeedEnds(c) =>
             \E S \in window[c] \cup {FollowedPosts(pending[c].current_user.id)} :
                /\ BodySet(resp'.body) = {PostResponse(p) : p \in S}
                /\ Len(resp'.body) = Cardinality(S)]_vars

\* C22 amended: the response is the posts stored when the second query runs
\* whose author the caller followed when the first query ran, each once,
\* newest first; neither query changes the store.
C22_FeedOfTwoStates ==
    [][\A c \in Conns :
          /\ FeedStarts(c) =>
                LET auth == get_current_user(pending'[c].req.token)
                IN  /\ auth.ok
                    /\ pending'[c].current_user = auth.user
                    /\ pending'[c].followed_users_id =
                          {f.followed_id : f \in {g \in BagToSet(follows) :
                                                    g.follower_id = auth.user.id}}
                    /\ UNCHANGED store
          /\ FeedEnds(c) =>
                LET body == resp'.body
                    S == {p \in posts : p.owner_id \in pending[c].followed_users_id}
                IN  /\ req' = pending[c].req
                    /\ resp'.status = 200
                    /\ BodySet(body) = {PostResponse(p) : p \in S}
                    /\ Len(body) = Cardinality(S)
                    /\ \A i \in 1..(Len(body) - 1) :
                          body[i].created_at >= body[i + 1].created_at
                    /\ UNCHANGED store]_vars

\* A feed answered with a post although its caller follows nobody: the
\* caller unfollowed the author between the two queries.
C22_Witness ==
    /\ req.op = "show_posts"
    /\ resp.status = 200
    /\ Len(resp.body) >= 1
    /\ Caller.ok
    /\ FollowedPosts(Caller.user.id) = {}
    /\ \A f \in BagToSet(follows) : f.follower_id # Caller.user.id

====
